---- MODULE Spec2Model ----
(***************************************************************************)
(* reflex-stripe: the StripeState backend state (stripe_state.py) and the  *)
(* factories that configure it (stripe_provider.py, embedded_checkout.py). *)
(*                                                                         *)
(*   cls      the ClassVars of StripeState (process-wide configuration)    *)
(*   self     the per-session state vars synced to the frontend            *)
(*   environ  os.environ["STRIPE_SECRET_KEY"] ("" when unset)              *)
(*   task     the running background handlers (@rx.event(background=True)),*)
(*            each cut at its awaits: the provider call and the            *)
(*            `async with self` blocks; a task at pc "await" is a call of  *)
(*            payment_intents.create_async / checkout.sessions.create_async*)
(*            the provider has not answered yet; the coroutines of the     *)
(*            HTTP endpoints run in the same slots (pc "api_await")        *)
(*   lastOp   Spec: the handler that last wrote the state vars;            *)
(*            SpecConfig, SpecPages: the configuration or setup call that  *)
(*            ran last; SpecApi: the endpoint response returned last       *)
(*   app      the rx.App: its backend's route table and its pages          *)
(*                                                                         *)
(* Spec is one session's request handling, started from the configurations *)
(* the app's setup leaves; SpecConfig is the configuration calls;          *)
(* SpecPages is the app's setup by register_stripe_api and the page        *)
(* helpers of pages.py; SpecApi is the HTTP endpoints; SpecCheckout is the *)
(* creation of checkout sessions by handler and endpoint; SpecApp is the   *)
(* handlers and the endpoints side by side; SpecClient is the handlers     *)
(* that ask for the provider client concurrently; SpecRace is the creates  *)
(* in flight on one session racing the callbacks and reset_payment, and    *)
(* SpecRaceFair adds the fairness of the provider and of the session lock. *)
(***************************************************************************)
EXTENDS Integers, Sequences, FiniteSets, TLC

VARIABLES cls, self, environ, task, lastOp, app

vars == <<cls, self, environ, task, lastOp, app>>

-----------------------------------------------------------------------------
(* Bounds *)

\* number of background handler invocations that may be in flight at once
NumTasks == 1

\* number of times the app's setup may register the API routes
MaxRegistrations == 3

\* number of request handlers that run concurrently where their interleaving matters
NumRacers == 2

-----------------------------------------------------------------------------
(* Python values *)

\* Python None where a str is expected
None == "None"

\* truthiness of a str | None
Truthy(s) == s # None /\ s # ""

\* `a or b` on str | None
Or(a, b) == IF Truthy(a) THEN a ELSE b

\* int | None and list | None arguments: <<>> is None, <<v>> is the value v
Some(v) == <<v>>

\* `amount or default` on int | None: None and 0 are falsy
OrInt(a, b) == IF a # <<>> /\ a[1] # 0 THEN a[1] ELSE b

\* `line_items or default` on list | None: None and [] are falsy
OrList(a, b) == IF a # <<>> /\ a[1] # <<>> THEN a[1] ELSE b

\* URLs are sequences of tokens, "" is <<>>; `tok in url`
Contains(url, tok) == \E i \in DOMAIN url : url[i] = tok

PLACEHOLDER == "{CHECKOUT_SESSION_ID}"

-----------------------------------------------------------------------------
(* Input domains *)

Keys == {"sk_test_123"}
EnvKeys == {"", "sk_env"}
AmountArgs == {<<>>, Some(0), Some(-1), Some(1099)}
CurrencyArgs == {None, "eur"}
Item == "price_xxx"
LineItemArgs == {<<>>, Some(<<>>), Some(<<Item>>)}
ReturnUrlArgs == {<<>>, <<"/done">>, <<"/done", "?", "a=1">>}
ErrorArgs == {"", "card_declined"}

\* what the provider answers
Secrets == {"cs_1", "cs_2"}
PIStatuses == {"requires_payment_method", "processing", "succeeded"}
CSStatuses == {None, "open"}
ProviderErrors == {"provider_error"}

-----------------------------------------------------------------------------
(* StripeState: state vars and ClassVars *)

StateVars == [client_secret |-> "", payment_status |-> "idle", error_message |-> ""]

ClassVars ==
    [_secret_key |-> None, _stripe_client |-> None, _default_amount |-> 0,
     _default_currency |-> "usd", _return_url |-> <<>>, _default_line_items |-> <<>>]

ErrEmptyKey == "Stripe secret_key must not be empty"
ErrNoKey == "STRIPE_SECRET_KEY must be passed to stripe_provider() or set as an environment variable"
ErrAmount == "Amount is required"
ErrLineItems == "line_items is required"

\* Each classmethod maps the ClassVars to [cls |-> the ClassVars after, raised |-> the
\* exception's message or ""].
Return(c) == [cls |-> c, raised |-> ""]
Raise(c, msg) == [cls |-> c, raised |-> msg]

\* a setter that drops the cached client before it validates the key
_set_secret_key_clears_first(c, secret_key) ==
    IF ~Truthy(secret_key) THEN Raise([c EXCEPT !._stripe_client = None], ErrEmptyKey)
    ELSE Return([c EXCEPT !._secret_key = secret_key, !._stripe_client = None])

\* a setter that stores the key and leaves the cached client in place
_set_secret_key_keeps_client(c, secret_key) ==
    IF ~Truthy(secret_key) THEN Raise(c, ErrEmptyKey)
    ELSE Return([c EXCEPT !._secret_key = secret_key])

_set_secret_key(c, secret_key) ==
    IF ~Truthy(secret_key) THEN Raise(c, ErrEmptyKey)
    ELSE Return([c EXCEPT !._secret_key = secret_key, !._stripe_client = None])

_set_defaults(c, amount, currency, return_url) ==
    Return([c EXCEPT !._default_amount = amount,
                     !._default_currency = currency,
                     !._return_url = return_url])

\* a setter that overwrites the return URL unconditionally, as _set_defaults does
_set_checkout_defaults_overwrites(c, line_items, return_url) ==
    LET c1 == IF line_items # <<>> THEN [c EXCEPT !._default_line_items = line_items[1]] ELSE c
    IN  Return([c1 EXCEPT !._return_url = return_url])

_set_checkout_defaults(c, line_items, return_url) ==
    LET c1 == IF line_items # <<>> THEN [c EXCEPT !._default_line_items = line_items[1]] ELSE c
    IN  Return(IF return_url # <<>> THEN [c1 EXCEPT !._return_url = return_url] ELSE c1)

\* a lookup that prefers the environment variable to the configured key
_get_client_env_first(c, env) ==
    IF c._stripe_client = None
    THEN LET key == Or(env, c._secret_key)
         IN  IF ~Truthy(key) THEN Raise(c, ErrNoKey)
             ELSE Return([c EXCEPT !._stripe_client = key])
    ELSE Return(c)

\* the client is modelled by the key it was built from
\* a _get_client that builds a client for its caller without caching it
_get_client_uncached(c, env) ==
    IF c._stripe_client = None
    THEN LET key == Or(c._secret_key, env)
         IN  IF ~Truthy(key) THEN Raise(c, ErrNoKey)
             ELSE Return(c)
    ELSE Return(c)

_get_client(c, env) ==
    IF c._stripe_client = None
    THEN LET key == Or(c._secret_key, env)
         IN  IF ~Truthy(key) THEN Raise(c, ErrNoKey)
             ELSE Return([c EXCEPT !._stripe_client = key])
    ELSE Return(c)

-----------------------------------------------------------------------------
(* Factories that configure StripeState when the pages are built *)

stripe_provider(c, secret_key, mode, amount, currency, return_url) ==
    LET r == IF Truthy(secret_key) THEN _set_secret_key(c, secret_key) ELSE Return(c)
    IN  IF r.raised # "" THEN r
        ELSE IF Truthy(mode) /\ amount # <<>> /\ amount[1] # 0 /\ Truthy(currency)
        THEN _set_defaults(r.cls, amount[1], currency, return_url)
        ELSE r

embedded_checkout_session(c, secret_key, line_items, return_url) ==
    LET r == IF Truthy(secret_key) THEN _set_secret_key(c, secret_key) ELSE Return(c)
    IN  IF r.raised # "" THEN r
        ELSE IF line_items # <<>>
        THEN _set_checkout_defaults(r.cls, line_items, return_url)
        ELSE r

\* the event handlers StripeState defines
EventHandlers ==
    {"create_payment_intent", "create_checkout_session", "handle_payment_success",
     "handle_payment_error", "reset_payment"}

\* AttributeError of `StripeState.<name>` for a name the class does not define
ErrAttribute(name) == "StripeState has no attribute " \o name

\* The app: api, whether it has a Starlette backend (`_api` or `api`); routes, the
\* backend's route table, in registration order; pages, the routes of its pages.
NewApp(has_api) == [api |-> has_api, routes |-> <<>>, pages |-> {}]

\* the paths of get_stripe_api_routes(), in its order
ApiPaths ==
    <<"/api/stripe/create-payment-intent", "/api/stripe/create-checkout-session",
      "/api/stripe/session-status">>

ErrNoBackend == "Cannot register Stripe API: app has no Starlette backend."
ErrRoute == "route must start with '/'"
ErrReturnRoute == "return_route must start with '/'"

\* `route.startswith("/")`: the first token of the route is a rooted path
RootedPaths ==
    {"/checkout", "/checkout/return", "/express-checkout", "/express-checkout/complete",
     "/done", "/r"}

StartsWithSlash(route) == route # <<>> /\ route[1] \in RootedPaths

\* register_stripe_api adds the three routes to the backend's route table; add_route
\* appends, whatever the table holds already
register_stripe_api(a) ==
    IF ~a.api
    THEN [app |-> a, raised |-> ErrNoBackend]
    ELSE [app |-> [a EXCEPT !.routes = @ \o ApiPaths], raised |-> ""]

\* try: register_stripe_api(app) / except Exception: pass
_register_api_safe(a) == [app |-> register_stripe_api(a).app, raised |-> ""]

\* app.add_page(component, route=route)
add_page(a, route) == [a EXCEPT !.pages = @ \cup {route}]

\* the app that serves requests: rx.App() with the API routes registered
RunningApp == register_stripe_api(NewApp(TRUE)).app

\* Each page helper maps the app and the ClassVars to [app, cls |-> both after,
\* raised |-> the exception's message or ""]: the two asserts on the routes, the secret
\* key's fallback to the environment, the registration of the API routes, the checkout
\* component (which configures StripeState) added as a page; then the return page
\* with on_load=StripeState.<handler>, an attribute lookup.
add_checkout_page_registers_first(a, c, env, secret_key, line_items, route, return_route) ==
    LET key == Or(secret_key, env)
        reg == _register_api_safe(a)
        r   == embedded_checkout_session(c, key, line_items, return_route)
    IN  IF ~StartsWithSlash(route) THEN [app |-> reg.app, cls |-> c, raised |-> ErrRoute]
        ELSE IF ~StartsWithSlash(return_route)
        THEN [app |-> reg.app, cls |-> c, raised |-> ErrReturnRoute]
        ELSE IF r.raised # "" THEN [app |-> reg.app, cls |-> r.cls, raised |-> r.raised]
        ELSE IF "get_session_status" \notin EventHandlers
        THEN [app |-> add_page(reg.app, route), cls |-> r.cls,
              raised |-> ErrAttribute("get_session_status")]
        ELSE [app |-> add_page(add_page(reg.app, route), return_route), cls |-> r.cls,
              raised |-> ""]

add_checkout_page(a, c, env, secret_key, line_items, route, return_route) ==
    LET key == Or(secret_key, env)
        reg == _register_api_safe(a)
        r   == embedded_checkout_session(c, key, line_items, return_route)
    IN  IF ~StartsWithSlash(route) THEN [app |-> a, cls |-> c, raised |-> ErrRoute]
        ELSE IF ~StartsWithSlash(return_route)
        THEN [app |-> a, cls |-> c, raised |-> ErrReturnRoute]
        ELSE IF r.raised # "" THEN [app |-> reg.app, cls |-> r.cls, raised |-> r.raised]
        ELSE IF "get_session_status" \notin EventHandlers
        THEN [app |-> add_page(reg.app, route), cls |-> r.cls,
              raised |-> ErrAttribute("get_session_status")]
        ELSE [app |-> add_page(add_page(reg.app, route), return_route), cls |-> r.cls,
              raised |-> ""]

add_express_checkout_page(a, c, env, secret_key, amount, currency, route, return_route) ==
    LET key == Or(secret_key, env)
        reg == _register_api_safe(a)
        r   == stripe_provider(c, key, "payment", Some(amount), currency, <<>>)
    IN  IF ~StartsWithSlash(route) THEN [app |-> a, cls |-> c, raised |-> ErrRoute]
        ELSE IF ~StartsWithSlash(return_route)
        THEN [app |-> a, cls |-> c, raised |-> ErrReturnRoute]
        ELSE IF r.raised # "" THEN [app |-> reg.app, cls |-> r.cls, raised |-> r.raised]
        ELSE IF "get_payment_status" \notin EventHandlers
        THEN [app |-> add_page(reg.app, route), cls |-> r.cls,
              raised |-> ErrAttribute("get_payment_status")]
        ELSE [app |-> add_page(add_page(reg.app, route), return_route), cls |-> r.cls,
              raised |-> ""]

-----------------------------------------------------------------------------
(* Event handlers run under the session lock *)

\* a success callback that is ignored unless a payment is in progress
handle_payment_success_guarded(s) ==
    IF s.payment_status \in {"idle", "failed"} THEN s
    ELSE [s EXCEPT !.payment_status = "succeeded", !.error_message = ""]

\* a success callback that also drops the client secret it no longer needs
handle_payment_success_clears_secret(s) ==
    [s EXCEPT !.client_secret = "", !.payment_status = "succeeded", !.error_message = ""]

handle_payment_success(s) ==
    [s EXCEPT !.payment_status = "succeeded", !.error_message = ""]

\* an error callback that marks the failure without a status change when one is in
\* progress
handle_payment_error_keeps_status(s, error_message) ==
    [s EXCEPT !.error_message = error_message]

handle_payment_error(s, error_message) ==
    [s EXCEPT !.payment_status = "failed", !.error_message = error_message]

\* a reset that leaves the client secret in place
reset_payment_keeps_secret(s) ==
    [s EXCEPT !.payment_status = "idle", !.error_message = ""]

\* a reset that forgets to clear the error message
reset_payment_keeps_error(s) ==
    [s EXCEPT !.client_secret = "", !.payment_status = "idle"]

\* a reset that leaves the status for the next payment to overwrite
reset_payment_keeps_status(s) ==
    [s EXCEPT !.client_secret = "", !.error_message = ""]

reset_payment(s) ==
    [s EXCEPT !.client_secret = "", !.payment_status = "idle", !.error_message = ""]

-----------------------------------------------------------------------------
(* Background handlers: create_payment_intent and create_checkout_session *)

Tasks == 1..NumTasks

NoParams == [amount |-> 0, currency |-> "", line_items |-> <<>>, return_url |-> <<>>]

\* a free task slot; a running one holds the handler's position and locals:
\*   params  what it sent to the provider (not read again once the call has ended),
\*   calls   how many provider calls it issued,
\*   secret, status  the provider's answer,  err  str(e) of the exception caught
Idle ==
    [kind |-> "none", pc |-> "idle", params |-> NoParams, calls |-> 0,
     secret |-> "", status |-> "", err |-> ""]

\* a create_payment_intent that remembers the amount it charged as the new default
create_payment_intent_stores_default(c, env, amount, currency) ==
    LET amt == OrInt(amount, c._default_amount)
        cur == Or(currency, c._default_currency)
        got == _get_client(c, env)
        me  == [Idle EXCEPT !.kind = "pi"]
    IN  IF amt = 0
        THEN [cls |-> c, task |-> [me EXCEPT !.pc = "invalid"]]
        ELSE IF got.raised # ""
        THEN [cls |-> got.cls, task |-> [me EXCEPT !.pc = "except", !.err = got.raised]]
        ELSE [cls |-> [got.cls EXCEPT !._default_amount = amt],
              task |-> [me EXCEPT !.pc = "await", !.calls = 1,
                                  !.params = [NoParams EXCEPT !.amount = amt, !.currency = cur]]]

\* create_payment_intent up to its first await: validation, _get_client, the call
create_payment_intent(c, env, amount, currency) ==
    LET amt == OrInt(amount, c._default_amount)
        cur == Or(currency, c._default_currency)
        got == _get_client(c, env)
        me  == [Idle EXCEPT !.kind = "pi"]
    IN  IF amt = 0
        THEN [cls |-> c, task |-> [me EXCEPT !.pc = "invalid"]]
        ELSE IF got.raised # ""
        THEN [cls |-> got.cls, task |-> [me EXCEPT !.pc = "except", !.err = got.raised]]
        ELSE [cls |-> got.cls,
              task |-> [me EXCEPT !.pc = "await", !.calls = 1,
                                  !.params = [NoParams EXCEPT !.amount = amt, !.currency = cur]]]

\* the three `async with self` blocks of create_payment_intent
create_payment_intent_invalid(s) ==
    [s EXCEPT !.error_message = ErrAmount, !.payment_status = "failed"]

\* a success write that keeps the previous error message
create_payment_intent_ok_keeps_error(s, intent) ==
    [s EXCEPT !.client_secret = intent.secret, !.payment_status = intent.status]

create_payment_intent_ok(s, intent) ==
    [s EXCEPT !.client_secret = intent.secret,
              !.payment_status = intent.status,
              !.error_message = ""]

\* an except block that reports the message and leaves the status to a later write
create_payment_intent_except_keeps_status(s, e) ==
    [s EXCEPT !.error_message = e]

create_payment_intent_except(s, e) ==
    [s EXCEPT !.error_message = e, !.payment_status = "failed"]

\* a construction that appends "?session_id=..." whether or not the URL has a query
session_return_url_always_query(ret_url) ==
    IF Contains(ret_url, PLACEHOLDER) THEN ret_url
    ELSE ret_url \o <<"?", "session_id=", PLACEHOLDER>>

\* the return URL sent with a checkout session
session_return_url(ret_url) ==
    IF Contains(ret_url, PLACEHOLDER) THEN ret_url
    ELSE ret_url \o <<(IF Contains(ret_url, "?") THEN "&" ELSE "?"), "session_id=", PLACEHOLDER>>

\* a create_checkout_session that validates `line_items is None` in place of `not items`
create_checkout_session_checks_none(c, env, line_items, return_url) ==
    LET items   == OrList(line_items, c._default_line_items)
        ret_url == IF return_url # <<>> THEN return_url ELSE c._return_url
        got     == _get_client(c, env)
        me      == [Idle EXCEPT !.kind = "cs"]
    IN  IF line_items = <<>> /\ items = <<>>
        THEN [cls |-> c, task |-> [me EXCEPT !.pc = "invalid"]]
        ELSE IF got.raised # ""
        THEN [cls |-> got.cls, task |-> [me EXCEPT !.pc = "except", !.err = got.raised]]
        ELSE [cls |-> got.cls,
              task |-> [me EXCEPT !.pc = "await", !.calls = 1,
                                  !.params = [NoParams EXCEPT
                                      !.line_items = items,
                                      !.return_url = IF ret_url # <<>>
                                                     THEN session_return_url(ret_url)
                                                     ELSE <<>>]]]

\* create_checkout_session up to its first await
create_checkout_session(c, env, line_items, return_url) ==
    LET items   == OrList(line_items, c._default_line_items)
        ret_url == IF return_url # <<>> THEN return_url ELSE c._return_url
        got     == _get_client(c, env)
        me      == [Idle EXCEPT !.kind = "cs"]
    IN  IF items = <<>>
        THEN [cls |-> c, task |-> [me EXCEPT !.pc = "invalid"]]
        ELSE IF got.raised # ""
        THEN [cls |-> got.cls, task |-> [me EXCEPT !.pc = "except", !.err = got.raised]]
        ELSE [cls |-> got.cls,
              task |-> [me EXCEPT !.pc = "await", !.calls = 1,
                                  !.params = [NoParams EXCEPT
                                      !.line_items = items,
                                      !.return_url = IF ret_url # <<>>
                                                     THEN session_return_url(ret_url)
                                                     ELSE <<>>]]]

create_checkout_session_invalid(s) ==
    [s EXCEPT !.error_message = ErrLineItems, !.payment_status = "failed"]

\* a success write that collapses every status but succeeded / failed to processing
create_checkout_session_ok_collapsed(s, session) ==
    [s EXCEPT !.client_secret = session.secret,
              !.payment_status = IF session.status \in {"succeeded", "failed"}
                                 THEN session.status ELSE "processing",
              !.error_message = ""]

\* a success write whose block ends after the first assignment
create_checkout_session_ok_secret_only(s, session) ==
    [s EXCEPT !.client_secret = session.secret]

create_checkout_session_ok(s, session) ==
    [s EXCEPT !.client_secret = session.secret,
              !.payment_status = Or(session.status, "open"),
              !.error_message = ""]

\* an except block that reports a fixed message in place of str(e)
create_checkout_session_except_generic(s, e) ==
    [s EXCEPT !.error_message = "Payment failed", !.payment_status = "failed"]

create_checkout_session_except(s, e) ==
    [s EXCEPT !.error_message = e, !.payment_status = "failed"]

-----------------------------------------------------------------------------
(* HTTP endpoints: each coroutine cut at its awaited provider call *)

SessionIds == {"", "cs_test_1"}
Origins == {"http://localhost:3000"}

\* what checkout.sessions.retrieve_async answers; customer_details is <<>> when the
\* session has none
RetrievedSessions ==
    {[status |-> "open", payment_status |-> "unpaid", customer_details |-> <<>>],
     [status |-> "complete", payment_status |-> "paid",
      customer_details |-> <<[email |-> "jo@example.com"]>>],
     [status |-> "complete", payment_status |-> "paid",
      customer_details |-> <<[email |-> None]>>]}

ErrNoLineItems == "No line_items configured"
ErrSessionId == "session_id query parameter is required"

JSONResponse(content, status_code) == [status_code |-> status_code, body |-> content]

\* an endpoint coroutine suspended at the provider call it issued with params
Awaiting(kind, params) ==
    [Idle EXCEPT !.kind = kind, !.pc = "api_await", !.params = params, !.calls = 1]

\* An endpoint up to its first await maps the ClassVars to [cls |-> the ClassVars
\* after, task |-> the suspended coroutine (Idle when it has returned),
\* response |-> <<the JSONResponse it returned>> or <<>>].
Responds(c, response) == [cls |-> c, task |-> Idle, response |-> <<response>>]
Suspends(c, kind, params) == [cls |-> c, task |-> Awaiting(kind, params), response |-> <<>>]

_create_payment_intent_endpoint(c, env) ==
    LET got == _get_client(c, env)
    IN  IF got.raised # ""
        THEN Responds(got.cls, JSONResponse([error |-> got.raised], 500))
        ELSE Suspends(got.cls, "pi_api",
                      [NoParams EXCEPT !.amount = c._default_amount,
                                       !.currency = c._default_currency])

_create_payment_intent_endpoint_ok(intent) ==
    JSONResponse([client_secret |-> intent.secret], 200)

\* an except block that forgets status_code=500
_create_payment_intent_endpoint_except_200(e) ==
    JSONResponse([error |-> e], 200)

_create_payment_intent_endpoint_except(e) ==
    JSONResponse([error |-> e], 500)

\* an endpoint whose 400 answer reports the configuration it found, key included
_create_checkout_session_endpoint_echoes_config(c, env, origin) ==
    LET got        == _get_client(c, env)
        items      == c._default_line_items
        return_url == IF c._return_url # <<>>
                      THEN session_return_url(<<origin>> \o c._return_url)
                      ELSE <<>>
    IN  IF got.raised # ""
        THEN Responds(got.cls, JSONResponse([error |-> got.raised], 500))
        ELSE IF items = <<>>
        THEN Responds(got.cls, JSONResponse([error |-> ErrNoLineItems,
                                             secret_key |-> c._secret_key], 400))
        ELSE Suspends(got.cls, "cs_api",
                      [NoParams EXCEPT !.line_items = items, !.return_url = return_url])

\* an endpoint that looks for its line items before it asks for the client
_create_checkout_session_endpoint_items_first(c, env, origin) ==
    LET got        == _get_client(c, env)
        items      == c._default_line_items
        return_url == IF c._return_url # <<>>
                      THEN session_return_url(<<origin>> \o c._return_url)
                      ELSE <<>>
    IN  IF items = <<>>
        THEN Responds(c, JSONResponse([error |-> ErrNoLineItems], 400))
        ELSE IF got.raised # ""
        THEN Responds(got.cls, JSONResponse([error |-> got.raised], 500))
        ELSE Suspends(got.cls, "cs_api",
                      [NoParams EXCEPT !.line_items = items, !.return_url = return_url])

_create_checkout_session_endpoint(c, env, origin) ==
    LET got        == _get_client(c, env)
        items      == c._default_line_items
        return_url == IF c._return_url # <<>>
                      THEN session_return_url(<<origin>> \o c._return_url)
                      ELSE <<>>
    IN  IF got.raised # ""
        THEN Responds(got.cls, JSONResponse([error |-> got.raised], 500))
        ELSE IF items = <<>>
        THEN Responds(got.cls, JSONResponse([error |-> ErrNoLineItems], 400))
        ELSE Suspends(got.cls, "cs_api",
                      [NoParams EXCEPT !.line_items = items, !.return_url = return_url])

_create_checkout_session_endpoint_ok(session) ==
    JSONResponse([client_secret |-> session.secret], 200)

_create_checkout_session_endpoint_except(e) ==
    JSONResponse([error |-> e], 500)

\* an endpoint that builds the client before it looks at the query parameter
_get_session_status_endpoint_client_first(c, env, session_id) ==
    LET got == _get_client(c, env)
    IN  IF session_id = ""
        THEN Responds(got.cls, JSONResponse([error |-> ErrSessionId], 400))
        ELSE IF got.raised # ""
        THEN Responds(got.cls, JSONResponse([error |-> got.raised], 500))
        ELSE Suspends(got.cls, "ss_api", [session_id |-> session_id])

\* session_id is request.query_params.get("session_id", ""): "" when it is missing
_get_session_status_endpoint(c, env, session_id) ==
    LET got == _get_client(c, env)
    IN  IF session_id = ""
        THEN Responds(c, JSONResponse([error |-> ErrSessionId], 400))
        ELSE IF got.raised # ""
        THEN Responds(got.cls, JSONResponse([error |-> got.raised], 500))
        ELSE Suspends(got.cls, "ss_api", [session_id |-> session_id])

_get_session_status_endpoint_ok(session) ==
    LET customer_email == IF session.customer_details # <<>>
                          THEN session.customer_details[1].email
                          ELSE None
    IN  JSONResponse([status |-> session.status,
                      payment_status |-> session.payment_status,
                      customer_email |-> customer_email], 200)

_get_session_status_endpoint_except(e) ==
    JSONResponse([error |-> e], 500)

-----------------------------------------------------------------------------
(* Request handling: the steps of the handlers of one session *)

\* lastOp: op, the handler that last wrote the state vars; arg, the message it was
\* called with (handle_payment_error); from, the payment_status it found
Op(op, arg) == [op |-> op, arg |-> arg, from |-> self.payment_status]

Config == <<cls, environ>>

HandlePaymentSuccess ==
    /\ self' = handle_payment_success(self)
    /\ lastOp' = Op("handle_payment_success", "")
    /\ UNCHANGED <<app, Config, task>>

HandlePaymentError(error_message) ==
    /\ self' = handle_payment_error(self, error_message)
    /\ lastOp' = Op("handle_payment_error", error_message)
    /\ UNCHANGED <<app, Config, task>>

ResetPayment ==
    /\ self' = reset_payment(self)
    /\ lastOp' = Op("reset_payment", "")
    /\ UNCHANGED <<app, Config, task>>

\* create_payment_intent is called: it runs to its first await
CreatePaymentIntent(t, amount, currency) ==
    LET r == create_payment_intent(cls, environ, amount, currency)
    IN  /\ task[t].pc = "idle"
        /\ task' = [task EXCEPT ![t] = r.task]
        /\ cls' = r.cls
        /\ UNCHANGED <<app, self, environ, lastOp>>

CreateCheckoutSession(t, line_items, return_url) ==
    LET r == create_checkout_session(cls, environ, line_items, return_url)
    IN  /\ task[t].pc = "idle"
        /\ task' = [task EXCEPT ![t] = r.task]
        /\ cls' = r.cls
        /\ UNCHANGED <<app, self, environ, lastOp>>

\* the provider answers the awaited call: an intent / a session, or an exception
ProviderReturns(t, secret, status) ==
    /\ task[t].pc = "await"
    /\ status \in (IF task[t].kind = "pi" THEN PIStatuses ELSE CSStatuses)
    /\ task' = [task EXCEPT ![t] = [@ EXCEPT !.pc = "ok", !.params = NoParams,
                                            !.secret = secret, !.status = status]]
    /\ UNCHANGED <<app, Config, self, lastOp>>

\* a provider failure after which the call is issued once more
ProviderRaises_retries(t, e) ==
    /\ task[t].pc = "await"
    /\ task' = [task EXCEPT ![t] = IF @.calls < 2
                                   THEN [@ EXCEPT !.calls = @ + 1]
                                   ELSE [@ EXCEPT !.pc = "except", !.params = NoParams,
                                                  !.err = e]]
    /\ UNCHANGED <<app, Config, self, lastOp>>

ProviderRaises(t, e) ==
    /\ task[t].pc = "await"
    /\ task' = [task EXCEPT ![t] = [@ EXCEPT !.pc = "except", !.params = NoParams, !.err = e]]
    /\ UNCHANGED <<app, Config, self, lastOp>>

\* the handler's `async with self` block, after which it returns
CreatePaymentIntentReturn(t) ==
    /\ task[t].kind = "pi"
    /\ task[t].pc \in {"invalid", "ok", "except"}
    /\ self' = CASE task[t].pc = "invalid" -> create_payment_intent_invalid(self)
                 [] task[t].pc = "ok" -> create_payment_intent_ok(self, task[t])
                 [] task[t].pc = "except" -> create_payment_intent_except(self, task[t].err)
    /\ task' = [task EXCEPT ![t] = Idle]
    /\ lastOp' = Op("create_payment_intent", "")
    /\ UNCHANGED <<app, Config>>

CreateCheckoutSessionReturn(t) ==
    /\ task[t].kind = "cs"
    /\ task[t].pc \in {"invalid", "ok", "except"}
    /\ self' = CASE task[t].pc = "invalid" -> create_checkout_session_invalid(self)
                 [] task[t].pc = "ok" -> create_checkout_session_ok(self, task[t])
                 [] task[t].pc = "except" -> create_checkout_session_except(self, task[t].err)
    /\ task' = [task EXCEPT ![t] = Idle]
    /\ lastOp' = Op("create_checkout_session", "")
    /\ UNCHANGED <<app, Config>>

-----------------------------------------------------------------------------
(* Spec: the handlers of one session, from a configuration the app's setup can leave *)

\* the ClassVars after one more page is built, with or without a secret key:
\* stripe_provider(..., mode="payment", amount=1099, currency="usd") or
\* embedded_checkout_session(..., line_items=[Item], return_url="/done")
Configure(S) ==
    S \cup { stripe_provider(c, k, "payment", Some(1099), "usd", <<>>).cls :
                c \in S, k \in {None} \cup Keys }
      \cup { embedded_checkout_session(c, k, Some(<<Item>>), <<"/done">>).cls :
                c \in S, k \in {None} \cup Keys }

InitConfigs == Configure({ClassVars})

NoOp == [op |-> "none", arg |-> "", from |-> "idle"]

Init ==
    /\ cls \in InitConfigs
    /\ environ \in EnvKeys
    /\ self = StateVars
    /\ task = [t \in Tasks |-> Idle]
    /\ lastOp = NoOp
    /\ app = RunningApp

Next ==
    \/ HandlePaymentSuccess
    \/ \E m \in ErrorArgs : HandlePaymentError(m)
    \/ ResetPayment
    \/ \E t \in Tasks, a \in AmountArgs, c \in CurrencyArgs : CreatePaymentIntent(t, a, c)
    \/ \E t \in Tasks, li \in LineItemArgs, u \in ReturnUrlArgs : CreateCheckoutSession(t, li, u)
    \/ \E t \in Tasks, s \in Secrets, st \in PIStatuses \cup CSStatuses : ProviderReturns(t, s, st)
    \/ \E t \in Tasks, e \in ProviderErrors : ProviderRaises(t, e)
    \/ \E t \in Tasks : CreatePaymentIntentReturn(t)
    \/ \E t \in Tasks : CreateCheckoutSessionReturn(t)

Spec == Init /\ [][Next]_vars

-----------------------------------------------------------------------------
(* SpecConfig: the configuration calls made while the app is set up *)

KeyArgs == {None, ""} \cup Keys
\* the key of a later _set_secret_key call
NewKeys == {"sk_live_456"}
ModeArgs == {None, "payment"}
DefaultAmounts == {0, 1099}
Currencies == {"usd", "eur"}
ConfigUrls == {<<>>, <<"/done">>, <<"/checkout/return">>}

\* the call that last ran: op, its name; args, its arguments; from, the ClassVars
\* before it; raised, the exception it ended with ("" when it returned)
Call(op, args, r) == [op |-> op, args |-> args, from |-> cls, raised |-> r.raised]

Session == <<self, task>>

SetSecretKey(secret_key) ==
    LET r == _set_secret_key(cls, secret_key)
    IN  /\ cls' = r.cls
        /\ lastOp' = Call("_set_secret_key", <<secret_key>>, r)
        /\ UNCHANGED <<app, environ, Session>>

SetDefaults(amount, currency, return_url) ==
    LET r == _set_defaults(cls, amount, currency, return_url)
    IN  /\ cls' = r.cls
        /\ lastOp' = Call("_set_defaults", <<amount, currency, return_url>>, r)
        /\ UNCHANGED <<app, environ, Session>>

SetCheckoutDefaults(line_items, return_url) ==
    LET r == _set_checkout_defaults(cls, line_items, return_url)
    IN  /\ cls' = r.cls
        /\ lastOp' = Call("_set_checkout_defaults", <<line_items, return_url>>, r)
        /\ UNCHANGED <<app, environ, Session>>

GetClient ==
    LET r == _get_client(cls, environ)
    IN  /\ cls' = r.cls
        /\ lastOp' = Call("_get_client", <<>>, r)
        /\ UNCHANGED <<app, environ, Session>>

\* os.environ["STRIPE_SECRET_KEY"] is set (or, with "", removed)
SetEnviron(e) ==
    /\ environ' = e
    /\ lastOp' = Call("environ", <<e>>, Return(cls))
    /\ UNCHANGED <<app, cls, Session>>

StripeProvider(secret_key, mode, amount, currency, return_url) ==
    LET r == stripe_provider(cls, secret_key, mode, amount, currency, return_url)
    IN  /\ cls' = r.cls
        /\ lastOp' = Call("stripe_provider", <<secret_key, mode, amount, currency, return_url>>, r)
        /\ UNCHANGED <<app, environ, Session>>

EmbeddedCheckoutSession(secret_key, line_items, return_url) ==
    LET r == embedded_checkout_session(cls, secret_key, line_items, return_url)
    IN  /\ cls' = r.cls
        /\ lastOp' = Call("embedded_checkout_session", <<secret_key, line_items, return_url>>, r)
        /\ UNCHANGED <<app, environ, Session>>

InitConfig ==
    /\ cls = ClassVars
    /\ environ \in EnvKeys
    /\ self = StateVars
    /\ task = [t \in Tasks |-> Idle]
    /\ lastOp = [op |-> "none", args |-> <<>>, from |-> ClassVars, raised |-> ""]
    /\ app = NewApp(TRUE)

NextConfig ==
    \/ \E k \in KeyArgs \cup NewKeys : SetSecretKey(k)
    \/ \E a \in DefaultAmounts, c \in Currencies, u \in ConfigUrls : SetDefaults(a, c, u)
    \/ \E li \in LineItemArgs, u \in ConfigUrls : SetCheckoutDefaults(li, u)
    \/ GetClient
    \/ \E e \in EnvKeys : SetEnviron(e)
    \/ \E k \in KeyArgs, m \in ModeArgs, a \in {<<>>, Some(0), Some(1099)},
          c \in {None, "usd"}, u \in {<<>>, <<"/done">>} :
            StripeProvider(k, m, a, c, u)
    \/ \E k \in KeyArgs, li \in LineItemArgs, u \in {<<>>, <<"/checkout/return">>} :
            EmbeddedCheckoutSession(k, li, u)

SpecConfig == InitConfig /\ [][NextConfig]_vars

-----------------------------------------------------------------------------
(* SpecPages: the app's setup, registering the API routes and adding the pages *)

PageRoutes == {<<"/checkout">>, <<"bad-route">>}
ReturnRoutes == {<<"/checkout/return">>, <<"bad-return">>}

\* the setup call that last ran: args, its arguments; from and app, the ClassVars and
\* the app before it; raised, the exception it ended with ("" when it returned)
PageCall(op, args, r) ==
    [op |-> op, args |-> args, from |-> cls, app |-> app, raised |-> r.raised]

\* the setup registers the API routes at most MaxRegistrations times
MayRegister == Len(app.routes) < Len(ApiPaths) * MaxRegistrations

RegisterStripeApi ==
    LET r == register_stripe_api(app)
    IN  /\ MayRegister
        /\ app' = r.app
        /\ lastOp' = PageCall("register_stripe_api", <<>>, r)
        /\ UNCHANGED <<Config, Session>>

AddCheckoutPage(secret_key, line_items, route, return_route) ==
    LET r == add_checkout_page(app, cls, environ, secret_key, line_items, route, return_route)
    IN  /\ MayRegister
        /\ app' = r.app
        /\ cls' = r.cls
        /\ lastOp' = PageCall("add_checkout_page",
                              <<secret_key, line_items, route, return_route>>, r)
        /\ UNCHANGED <<environ, Session>>

AddExpressCheckoutPage(secret_key, amount, currency, route, return_route) ==
    LET r == add_express_checkout_page(app, cls, environ, secret_key, amount, currency,
                                       route, return_route)
    IN  /\ MayRegister
        /\ app' = r.app
        /\ cls' = r.cls
        /\ lastOp' = PageCall("add_express_checkout_page",
                              <<secret_key, amount, currency, route, return_route>>, r)
        /\ UNCHANGED <<environ, Session>>

InitPages ==
    /\ cls = ClassVars
    /\ environ \in EnvKeys
    /\ self = StateVars
    /\ task = [t \in Tasks |-> Idle]
    /\ app \in {NewApp(TRUE), NewApp(FALSE)}
    /\ lastOp = [op |-> "none", args |-> <<>>, from |-> ClassVars, app |-> NewApp(TRUE),
                 raised |-> ""]

NextPages ==
    \/ RegisterStripeApi
    \/ \E k \in {None} \cup Keys, li \in {<<>>, Some(<<Item>>)},
          r \in PageRoutes, rr \in ReturnRoutes :
            AddCheckoutPage(k, li, r, rr)
    \/ \E k \in {None} \cup Keys, a \in DefaultAmounts \ {0},
          r \in PageRoutes, rr \in ReturnRoutes :
            AddExpressCheckoutPage(k, a, "usd", r, rr)

SpecPages == InitPages /\ [][NextPages]_vars

-----------------------------------------------------------------------------
(* SpecApi: the HTTP endpoints, serving requests concurrently *)

\* lastOp after an endpoint has answered: op, the endpoint; request, its input (the
\* session_id parameter or the request's origin); calls, the provider calls it issued;
\* answer, <<what the provider returned>>; raised, the exception caught; response, the
\* JSONResponse returned
Responded(op, request, calls, answer, raised, response) ==
    [op |-> op, request |-> request, calls |-> calls, answer |-> answer,
     raised |-> raised, response |-> response]

\* an endpoint is called and runs to its first await, or to its response
Serve(t, op, request, r) ==
    /\ task[t].pc = "idle"
    /\ cls' = r.cls
    /\ task' = [task EXCEPT ![t] = r.task]
    /\ lastOp' = IF r.response = <<>> THEN lastOp
                 ELSE Responded(op, request, 0, <<>>, "", r.response[1])
    /\ UNCHANGED <<app, self, environ>>

CreatePaymentIntentEndpoint(t) ==
    Serve(t, "pi_api", "", _create_payment_intent_endpoint(cls, environ))

CreateCheckoutSessionEndpoint(t, origin) ==
    Serve(t, "cs_api", origin, _create_checkout_session_endpoint(cls, environ, origin))

GetSessionStatusEndpoint(t, session_id) ==
    Serve(t, "ss_api", session_id, _get_session_status_endpoint(cls, environ, session_id))

\* the request a suspended endpoint is serving, as far as its coroutine holds it
RequestOf(t) == IF task[t].kind = "ss_api" THEN task[t].params.session_id ELSE ""

\* the provider answers the create call of an endpoint with an intent / a session
EndpointProviderCreates(t, secret) ==
    /\ task[t].pc = "api_await"
    /\ task[t].kind \in {"pi_api", "cs_api"}
    /\ lastOp' = Responded(task[t].kind, RequestOf(t), task[t].calls, <<secret>>, "",
                           IF task[t].kind = "pi_api"
                           THEN _create_payment_intent_endpoint_ok([secret |-> secret])
                           ELSE _create_checkout_session_endpoint_ok([secret |-> secret]))
    /\ task' = [task EXCEPT ![t] = Idle]
    /\ UNCHANGED <<app, Config, self>>

\* the provider answers retrieve_async with the session
EndpointProviderRetrieves(t, session) ==
    /\ task[t].pc = "api_await"
    /\ task[t].kind = "ss_api"
    /\ lastOp' = Responded(task[t].kind, RequestOf(t), task[t].calls, <<session>>, "",
                           _get_session_status_endpoint_ok(session))
    /\ task' = [task EXCEPT ![t] = Idle]
    /\ UNCHANGED <<app, Config, self>>

\* the awaited call of an endpoint raises
EndpointProviderRaises(t, e) ==
    /\ task[t].pc = "api_await"
    /\ lastOp' = Responded(task[t].kind, RequestOf(t), task[t].calls, <<>>, e,
                           CASE task[t].kind = "pi_api"
                                    -> _create_payment_intent_endpoint_except(e)
                             [] task[t].kind = "cs_api"
                                    -> _create_checkout_session_endpoint_except(e)
                             [] task[t].kind = "ss_api"
                                    -> _get_session_status_endpoint_except(e))
    /\ task' = [task EXCEPT ![t] = Idle]
    /\ UNCHANGED <<app, Config, self>>

\* the configurations served: nothing configured; an embedded checkout page with no
\* return URL or one that is plain, has a query, or carries the placeholder; an
\* express checkout page
ApiReturnUrls ==
    {<<>>, <<"/done">>, <<"/done", "?", "a=1">>, <<"/r", "?", "session_id=", PLACEHOLDER>>}

ApiConfigs ==
    {ClassVars}
      \cup { embedded_checkout_session(ClassVars, k, Some(<<Item>>), u).cls :
                k \in Keys, u \in ApiReturnUrls }
      \cup { stripe_provider(ClassVars, k, "payment", Some(1099), "usd", <<>>).cls :
                k \in Keys }

InitApi ==
    /\ cls \in ApiConfigs
    /\ environ \in EnvKeys
    /\ self = StateVars
    /\ task = [t \in Tasks |-> Idle]
    /\ lastOp = NoOp
    /\ app = RunningApp

NextApi ==
    \/ \E t \in Tasks : CreatePaymentIntentEndpoint(t)
    \/ \E t \in Tasks, o \in Origins : CreateCheckoutSessionEndpoint(t, o)
    \/ \E t \in Tasks, id \in SessionIds : GetSessionStatusEndpoint(t, id)
    \/ \E t \in Tasks, s \in Secrets : EndpointProviderCreates(t, s)
    \/ \E t \in Tasks, s \in RetrievedSessions : EndpointProviderRetrieves(t, s)
    \/ \E t \in Tasks, e \in ProviderErrors : EndpointProviderRaises(t, e)

SpecApi == InitApi /\ [][NextApi]_vars

\* SpecCheckout: the creation of checkout sessions, by the event handler and by the
\* endpoint
NextCheckout ==
    \/ \E t \in Tasks, li \in LineItemArgs, u \in ReturnUrlArgs : CreateCheckoutSession(t, li, u)
    \/ \E t \in Tasks, s \in Secrets, st \in CSStatuses : ProviderReturns(t, s, st)
    \/ \E t \in Tasks, e \in ProviderErrors : ProviderRaises(t, e)
    \/ \E t \in Tasks : CreateCheckoutSessionReturn(t)
    \/ \E t \in Tasks, o \in Origins : CreateCheckoutSessionEndpoint(t, o)
    \/ \E t \in Tasks, s \in Secrets : EndpointProviderCreates(t, s)
    \/ \E t \in Tasks, e \in ProviderErrors : EndpointProviderRaises(t, e)

SpecCheckout == InitApi /\ [][NextCheckout]_vars

\* SpecApp: the event handlers of a session and the HTTP endpoints, side by side, in
\* an app that has nothing configured and no key in its environment, or has both an
\* express checkout and an embedded checkout page and a key in its environment too
ExpressConfigs ==
    { stripe_provider(ClassVars, k, "payment", Some(1099), "usd", <<>>).cls : k \in Keys }

AppConfigs ==
    ExpressConfigs
      \cup { embedded_checkout_session(c, None, Some(<<Item>>), <<"/done">>).cls :
                c \in ExpressConfigs }

InitApp ==
    /\ \/ cls = ClassVars /\ environ = ""
       \/ cls \in AppConfigs /\ environ = "sk_env"
    /\ self = StateVars
    /\ task = [t \in Tasks |-> Idle]
    /\ lastOp = NoOp
    /\ app = RunningApp

NextApp == Next \/ NextApi

SpecApp == InitApp /\ [][NextApp]_vars

-----------------------------------------------------------------------------
(* SpecClient: request handlers that ask for the provider client concurrently *)

Racers == 1 .. NumRacers

\* the key in the environment is rotated while the app runs
RotatedEnvKeys == EnvKeys \cup {"sk_env_2"}

InitClient ==
    /\ cls \in {ClassVars} \cup ExpressConfigs
    /\ environ \in EnvKeys
    /\ self = StateVars
    /\ task = [t \in Racers |-> Idle]
    /\ lastOp = NoOp
    /\ app = RunningApp

NextClient ==
    \/ \E t \in Racers : CreatePaymentIntent(t, Some(1099), None)
    \/ \E t \in Racers : CreateCheckoutSession(t, Some(<<Item>>), <<>>)
    \/ \E t \in Racers : CreatePaymentIntentEndpoint(t)
    \/ \E t \in Racers : GetSessionStatusEndpoint(t, "cs_test_1")
    \/ \E t \in Racers, st \in {"succeeded", "open"} : ProviderReturns(t, "cs_1", st)
    \/ \E t \in Racers, e \in ProviderErrors : ProviderRaises(t, e)
    \/ \E t \in Racers : CreatePaymentIntentReturn(t)
    \/ \E t \in Racers : CreateCheckoutSessionReturn(t)
    \/ \E t \in Racers : EndpointProviderCreates(t, "cs_1")
    \/ \E t \in Racers, e \in ProviderErrors : EndpointProviderRaises(t, e)
    \/ \E e \in RotatedEnvKeys : SetEnviron(e)

SpecClient == InitClient /\ [][NextClient]_vars

-----------------------------------------------------------------------------
(* SpecRace: background creates in flight on one session, racing each other, the *)
(* callbacks and reset_payment; SpecRaceFair adds the fairness of their steps    *)

\* the ClassVars the racing creates were called with: nothing configured, the client
\* built from the environment's key
RaceConfig == _get_client(ClassVars, "sk_env").cls

\* a create after its call: rejected by validation, or awaiting the provider
Started ==
    { create_payment_intent(RaceConfig, "sk_env", a, None).task : a \in {<<>>, Some(1099)} }
      \cup { create_checkout_session(RaceConfig, "sk_env", li, <<>>).task :
                li \in {<<>>, Some(<<Item>>)} }

InitRace ==
    /\ cls = RaceConfig
    /\ environ = "sk_env"
    /\ self = StateVars
    /\ task \in [Racers -> Started]
    /\ lastOp = NoOp
    /\ app = RunningApp

\* the provider answers the call of t
ProviderAnswers(t) ==
    \/ \E s \in Secrets, st \in {"requires_payment_method", "open"} : ProviderReturns(t, s, st)
    \/ \E e \in ProviderErrors : ProviderRaises(t, e)

\* t is granted the session lock for its `async with self` block
CreateReturn(t) == CreatePaymentIntentReturn(t) \/ CreateCheckoutSessionReturn(t)

NextRace ==
    \/ HandlePaymentSuccess
    \/ HandlePaymentError("card_declined")
    \/ ResetPayment
    \/ \E t \in Racers : ProviderAnswers(t)
    \/ \E t \in Racers : CreateReturn(t)

SpecRace == InitRace /\ [][NextRace]_vars

\* the provider call returns or raises, and the session lock is granted fairly
SpecRaceFair ==
    /\ SpecRace
    /\ \A t \in Racers : WF_vars(ProviderAnswers(t)) /\ WF_vars(CreateReturn(t))

-----------------------------------------------------------------------------
(* Claims *)

IsReturn(t, kind, pc) == task[t].kind = kind /\ task[t].pc = pc
IsCall(t, kind) == task[t].pc = "idle" /\ task'[t].kind = kind

\* C1 (as claimed): create_payment_intent called with an amount <= 0 issues no
\* provider call and takes a path that returns with payment_status "failed" and an
\* error message, whatever the configuration.
C1_NonPositiveAmountRejected ==
    [][\A t \in Tasks, a \in AmountArgs, c \in CurrencyArgs :
          (IsCall(t, "pi") /\ a # <<>> /\ a[1] <= 0 /\ CreatePaymentIntent(t, a, c))
              => /\ task'[t].calls = 0
                 /\ task'[t].pc \in {"invalid", "except"}]_vars

\* C2 (as claimed): create_checkout_session called with an empty list of line items
\* issues no provider call and returns with payment_status "failed", whatever the
\* configuration.
C2_EmptyLineItemsRejected ==
    [][\A t \in Tasks, u \in ReturnUrlArgs :
          (IsCall(t, "cs") /\ CreateCheckoutSession(t, Some(<<>>), u))
              => /\ task'[t].calls = 0
                 /\ task'[t].pc \in {"invalid", "except"}]_vars

\* C2 (amended): when the line items in effect are empty (the argument is omitted or
\* empty and no default line items are configured) create_checkout_session issues no
\* provider call, and it returns with payment_status "failed" and the message
\* "line_items is required".
C2_NoLineItemsRejected ==
    /\ [][\A t \in Tasks, li \in LineItemArgs, u \in ReturnUrlArgs :
            ( /\ IsCall(t, "cs")
              /\ li = <<>> \/ li[1] = <<>>
              /\ cls._default_line_items = <<>>
              /\ CreateCheckoutSession(t, li, u) )
                => /\ task'[t].calls = 0
                   /\ task'[t].pc = "invalid"]_vars
    /\ [][\A t \in Tasks :
            (IsReturn(t, "cs", "invalid") /\ CreateCheckoutSessionReturn(t))
                => /\ self'.payment_status = "failed"
                   /\ self'.error_message = ErrLineItems
                   /\ self'.client_secret = self.client_secret]_vars

\* a create_checkout_session without line items in effect has returned
C2_Witness ==
    /\ lastOp.op = "create_checkout_session"
    /\ self.error_message = ErrLineItems
    /\ cls._default_line_items = <<>>

\* C3 (as claimed): client_secret is non-empty only when payment_status is
\* requires_action, processing or succeeded.
C3_SecretOnlyWhenActive ==
    self.client_secret # ""
        => self.payment_status \in {"requires_action", "processing", "succeeded"}

\* C3 (amended): client_secret is empty whenever payment_status is idle; in every
\* other status, failed and the provider's own statuses included, it may be set.
C3_SecretEmptyWhenIdle ==
    self.payment_status = "idle" => self.client_secret = ""

\* reset_payment has run on a session that held the secret of a created intent
C3_Witness ==
    /\ lastOp.op = "reset_payment"
    /\ lastOp.from = "requires_payment_method"
    /\ self.payment_status = "idle"

\* C4: error_message is non-empty only when payment_status is failed.
C4_ErrorOnlyWhenFailed ==
    self.error_message # "" => self.payment_status = "failed"

\* a provider failure has been written to a session that held a secret
C4_Witness ==
    /\ lastOp.op \in {"create_payment_intent", "create_checkout_session"}
    /\ self.error_message \in ProviderErrors
    /\ self.client_secret # ""

\* C5: reset_payment leaves exactly client_secret "", payment_status idle,
\* error_message "", whatever the state before.
C5_ResetRestoresInitial ==
    lastOp.op = "reset_payment"
        => self = [client_secret |-> "", payment_status |-> "idle", error_message |-> ""]

\* reset_payment has run on a failed session
C5_Witness ==
    lastOp.op = "reset_payment" /\ lastOp.from = "failed"

\* C6: both callbacks are enabled in every state, and the one applied last decides
\* the status: handle_payment_error(m) gives failed with error_message m,
\* handle_payment_success gives succeeded with no error message, from any status.
C6_LastCallbackDecides ==
    /\ ENABLED HandlePaymentSuccess
    /\ \A m \in ErrorArgs : ENABLED HandlePaymentError(m)
    /\ lastOp.op = "handle_payment_error"
          => self.payment_status = "failed" /\ self.error_message = lastOp.arg
    /\ lastOp.op = "handle_payment_success"
          => self.payment_status = "succeeded" /\ self.error_message = ""

\* handle_payment_success has run on a session that was failed
C6_Witness ==
    /\ lastOp.op = "handle_payment_success"
    /\ lastOp.from = "failed"
    /\ self.client_secret # ""

\* the `async with self` block a successful create runs, and the answer it holds
PaymentIntentStored(t) == IsReturn(t, "pi", "ok") /\ CreatePaymentIntentReturn(t)
CheckoutSessionStored(t) == IsReturn(t, "cs", "ok") /\ CreateCheckoutSessionReturn(t)

\* C7 (as claimed): a create whose provider call returned secret s and status t
\* leaves client_secret = s, payment_status = t and error_message = "".
C7_CreateStoresAnswer ==
    [][\A t \in Tasks :
          (PaymentIntentStored(t) \/ CheckoutSessionStored(t))
              => self' = [client_secret |-> task[t].secret,
                          payment_status |-> task[t].status,
                          error_message |-> ""]]_vars

\* C7 (amended): create_payment_intent leaves client_secret = s, payment_status = t
\* and error_message = ""; create_checkout_session does the same, except that it
\* stores "open" when the provider reports no status.
C7_CreateStoresAnswerOrOpen ==
    [][\A t \in Tasks :
          /\ PaymentIntentStored(t)
                => self' = [client_secret |-> task[t].secret,
                            payment_status |-> task[t].status,
                            error_message |-> ""]
          /\ CheckoutSessionStored(t)
                => self' = [client_secret |-> task[t].secret,
                            payment_status |-> IF task[t].status = None THEN "open"
                                               ELSE task[t].status,
                            error_message |-> ""]]_vars

\* a payment intent answered with cs_1 / succeeded was stored over a failed session
C7_Witness ==
    /\ lastOp.op = "create_payment_intent"
    /\ lastOp.from = "failed"
    /\ self = [client_secret |-> "cs_1", payment_status |-> "succeeded", error_message |-> ""]

C9_DefaultsKeepReturnUrl ==
    /\ (lastOp.op = "_set_defaults" /\ lastOp.args[3] = <<>>)
          => cls._return_url = lastOp.from._return_url
    /\ (lastOp.op = "stripe_provider" /\ lastOp.args[5] = <<>>)
          => cls._return_url = lastOp.from._return_url

\* C10: _set_checkout_defaults with line items X and no return URL stores X and keeps
\* the return URL; with line_items None it keeps the default line items; it never
\* changes the default amount, the default currency, the secret key or the client.
C10_CheckoutDefaultsPartial ==
    lastOp.op = "_set_checkout_defaults" =>
        LET line_items == lastOp.args[1]
            return_url == lastOp.args[2]
            old == lastOp.from
        IN  /\ (line_items # <<>> /\ return_url = <<>>)
                  => /\ cls._default_line_items = line_items[1]
                     /\ cls._return_url = old._return_url
            /\ line_items = <<>> => cls._default_line_items = old._default_line_items
            /\ cls._default_amount = old._default_amount
            /\ cls._default_currency = old._default_currency
            /\ cls._secret_key = old._secret_key
            /\ cls._stripe_client = old._stripe_client

\* line items were set without a return URL while one was configured
C10_Witness ==
    /\ lastOp.op = "_set_checkout_defaults"
    /\ lastOp.args = <<Some(<<Item>>), <<>>>>
    /\ lastOp.from._return_url = <<"/done">>
    /\ lastOp.from._default_line_items = <<>>
    /\ cls._return_url = <<"/done">>

\* C11: _set_secret_key with an empty key (None or "") raises ValueError "... must not
\* be empty" and leaves the stored secret key and the cached client as they were.
C11_EmptyKeyRejected ==
    (lastOp.op = "_set_secret_key" /\ lastOp.args[1] \in {None, ""})
        => /\ lastOp.raised = ErrEmptyKey
           /\ cls._secret_key = lastOp.from._secret_key
           /\ cls._stripe_client = lastOp.from._stripe_client

\* an empty key was rejected while a key was stored and a client cached
C11_Witness ==
    /\ lastOp.op = "_set_secret_key"
    /\ lastOp.args = <<"">>
    /\ lastOp.raised = ErrEmptyKey
    /\ cls._secret_key \in Keys
    /\ cls._stripe_client \in Keys

\* C12: _set_secret_key(k) with a non-empty k stores k and clears the cached client;
\* the next _get_client builds the client from k; while a client is cached _get_client
\* returns it and builds nothing, whatever the environment has become; so a cached
\* client is never one built from an earlier key.
C12_ClientLazyAndInvalidated ==
    /\ (lastOp.op = "_set_secret_key" /\ lastOp.raised = "")
          => cls._secret_key = lastOp.args[1] /\ cls._stripe_client = None
    /\ (lastOp.op = "_get_client" /\ lastOp.from._stripe_client = None
                                   /\ lastOp.from._secret_key # None)
          => lastOp.raised = "" /\ cls._stripe_client = lastOp.from._secret_key
    /\ (lastOp.op = "_get_client" /\ lastOp.from._stripe_client # None)
          => lastOp.raised = "" /\ cls = lastOp.from
    /\ (cls._stripe_client # None /\ cls._secret_key # None)
          => cls._stripe_client = cls._secret_key

\* a new key was stored while the client built from the earlier key was cached
C12_Witness ==
    /\ lastOp.op = "_set_secret_key"
    /\ lastOp.args = <<"sk_live_456">>
    /\ lastOp.from._stripe_client = "sk_test_123"
    /\ cls._secret_key = "sk_live_456"
    /\ cls._stripe_client = None

\* C13: with no client cached, _get_client builds the client from the configured key
\* if one is set, otherwise from STRIPE_SECRET_KEY; with neither it raises and no
\* client is cached.
C13_KeyResolution ==
    (lastOp.op = "_get_client" /\ lastOp.from._stripe_client = None)
        => IF lastOp.from._secret_key \notin {None, ""}
           THEN lastOp.raised = "" /\ cls._stripe_client = lastOp.from._secret_key
           ELSE IF environ # ""
           THEN lastOp.raised = "" /\ cls._stripe_client = environ
           ELSE lastOp.raised = ErrNoKey /\ cls = lastOp.from

\* _get_client raised with neither a configured key nor the environment variable
C13_Witness ==
    /\ lastOp.op = "_get_client"
    /\ lastOp.raised = ErrNoKey
    /\ cls._stripe_client = None
    /\ environ = ""

\* C14: a create handler that finds no secret key when it builds the client, or whose
\* provider call raises, goes to its except block (no provider call is issued without
\* a client), and the except block ends the handler with payment_status "failed" and
\* error_message the message of the exception, the client secret left as it was.
C14_FailuresCaught ==
    [][\A t \in Tasks :
          /\ (task[t].pc = "idle" /\ task'[t].pc # "idle"
                 /\ _get_client(cls, environ).raised # "" /\ task'[t].pc # "invalid")
                => /\ task'[t].pc = "except"
                   /\ task'[t].err = _get_client(cls, environ).raised
                   /\ task'[t].calls = 0
          /\ \A e \in ProviderErrors :
                (task[t].pc = "await" /\ ProviderRaises(t, e))
                    => task'[t].pc = "except" /\ task'[t].err = e
          /\ (task[t].pc = "except" /\ task'[t].pc = "idle")
                => /\ self'.payment_status = "failed"
                   /\ self'.error_message = task[t].err
                   /\ self'.client_secret = self.client_secret]_vars

\* create_checkout_session has returned after failing for want of a secret key
C14_Witness ==
    /\ lastOp.op = "create_checkout_session"
    /\ self.payment_status = "failed"
    /\ self.error_message = ErrNoKey
    /\ cls._secret_key = None /\ environ = ""

\* the return URL the claim describes for a configured URL u
ClaimedReturnUrl(u) ==
    IF Contains(u, PLACEHOLDER) THEN u
    ELSE IF ~Contains(u, "?") THEN u \o <<"?", "session_id=", PLACEHOLDER>>
    ELSE u \o <<"&", "session_id=", PLACEHOLDER>>

\* the handler / the endpoint issues its provider call
HandlerCreates(t, li, u) ==
    IsCall(t, "cs") /\ task'[t].pc = "await" /\ CreateCheckoutSession(t, li, u)
EndpointCreates(t, o) ==
    IsCall(t, "cs_api") /\ task'[t].pc = "api_await" /\ CreateCheckoutSessionEndpoint(t, o)

\* C15 (as claimed): the return URL sent with a checkout session, by the handler and
\* by the endpoint, is built from the URL u in effect: u itself when it holds the
\* placeholder, otherwise u with "?session_id={CHECKOUT_SESSION_ID}" or, when u has a
\* "?", "&session_id={CHECKOUT_SESSION_ID}" appended; building it again changes
\* nothing; without a URL in effect no return_url is sent.
C15_ReturnUrlAsClaimed ==
    [][\A t \in Tasks :
          /\ \A li \in LineItemArgs, u \in ReturnUrlArgs :
                HandlerCreates(t, li, u)
                    => LET ret_url == IF u # <<>> THEN u ELSE cls._return_url
                           sent    == task'[t].params.return_url
                       IN  /\ sent = IF ret_url = <<>> THEN <<>> ELSE ClaimedReturnUrl(ret_url)
                           /\ sent # <<>> => session_return_url(sent) = sent
          /\ \A o \in Origins :
                EndpointCreates(t, o)
                    => LET ret_url == cls._return_url
                           sent    == task'[t].params.return_url
                       IN  /\ sent = IF ret_url = <<>> THEN <<>> ELSE ClaimedReturnUrl(ret_url)
                           /\ sent # <<>> => session_return_url(sent) = sent]_vars

\* C15 (amended): as claimed for the handler; the endpoint builds the URL in the same
\* way from the request's origin followed by the configured URL, so what it sends is
\* absolute.
C15_ReturnUrlFromOrigin ==
    [][\A t \in Tasks :
          /\ \A li \in LineItemArgs, u \in ReturnUrlArgs :
                HandlerCreates(t, li, u)
                    => LET ret_url == IF u # <<>> THEN u ELSE cls._return_url
                           sent    == task'[t].params.return_url
                       IN  /\ sent = IF ret_url = <<>> THEN <<>> ELSE ClaimedReturnUrl(ret_url)
                           /\ sent # <<>> => session_return_url(sent) = sent
          /\ \A o \in Origins :
                EndpointCreates(t, o)
                    => LET ret_url == cls._return_url
                           sent    == task'[t].params.return_url
                       IN  /\ sent = IF ret_url = <<>> THEN <<>>
                                     ELSE ClaimedReturnUrl(<<o>> \o ret_url)
                           /\ sent # <<>> => session_return_url(sent) = sent]_vars

\* the endpoint has sent a return URL built from a configured URL with a query
C15_Witness ==
    \E t \in Tasks :
        /\ task[t].kind = "cs_api"
        /\ task[t].pc = "api_await"
        /\ cls._return_url = <<"/done", "?", "a=1">>
        /\ task[t].params.return_url =
              <<"http://localhost:3000", "/done", "?", "a=1", "&", "session_id=", PLACEHOLDER>>

\* C17: GET session-status answers 400 with an error body when session_id is missing
\* or empty, and that request neither builds the client nor calls the provider; it
\* answers 500 with an error body when no key is configured or retrieve raises;
\* otherwise 200 with exactly status, payment_status and customer_email, the last null
\* when the session has no customer details.
C17_SessionStatusResponses ==
    /\ [](lastOp.op = "ss_api" =>
            LET status_code == lastOp.response.status_code
                body        == lastOp.response.body
            IN  IF lastOp.request = ""
                THEN /\ status_code = 400
                     /\ body = [error |-> ErrSessionId]
                     /\ lastOp.calls = 0
                ELSE IF lastOp.answer = <<>>
                THEN /\ status_code = 500
                     /\ DOMAIN body = {"error"}
                     /\ body.error = IF lastOp.calls = 0 THEN ErrNoKey ELSE lastOp.raised
                ELSE LET session == lastOp.answer[1]
                     IN  /\ status_code = 200
                         /\ DOMAIN body = {"status", "payment_status", "customer_email"}
                         /\ body.status = session.status
                         /\ body.payment_status = session.payment_status
                         /\ body.customer_email =
                               IF session.customer_details = <<>> THEN None
                               ELSE session.customer_details[1].email)
    /\ [][\A t \in Tasks :
            (task[t].pc = "idle" /\ GetSessionStatusEndpoint(t, ""))
                => cls' = cls /\ task' = task]_vars

\* a request without session_id was answered 400 while a key was configured and no
\* client had been built
C17_Witness ==
    /\ lastOp.op = "ss_api"
    /\ lastOp.response.status_code = 400
    /\ cls._secret_key \in Keys
    /\ cls._stripe_client = None

\* C18: the two POST endpoints answer every request: with 200 and
\* {client_secret: the secret the provider returned} when the provider call succeeds,
\* and with a status >= 400 and {error: message} when no secret key is found, the
\* provider call raises, or (checkout) no line items are configured.
C18_PostEndpointsRespond ==
    lastOp.op \in {"pi_api", "cs_api"} =>
        LET status_code == lastOp.response.status_code
            body        == lastOp.response.body
        IN  IF lastOp.answer # <<>>
            THEN /\ status_code = 200
                 /\ body = [client_secret |-> lastOp.answer[1]]
            ELSE /\ status_code \in {400, 500}
                 /\ DOMAIN body = {"error"}
                 /\ body.error = IF lastOp.raised # "" THEN lastOp.raised
                                 ELSE IF status_code = 400 THEN ErrNoLineItems
                                 ELSE ErrNoKey
                 /\ lastOp.raised # "" => status_code = 500 /\ lastOp.calls = 1

\* create-payment-intent answered a provider failure
C18_Witness ==
    /\ lastOp.op = "pi_api"
    /\ lastOp.raised \in ProviderErrors
    /\ lastOp.response = [status_code |-> 500, body |-> [error |-> lastOp.raised]]

\* C16 (as claimed): StripeState provides the get_session_status handler that
\* add_checkout_page registers as the on_load handler of the checkout return page, so
\* the page helper returns with the return page in place.
C16_ReturnPageHandlerProvided ==
    lastOp.op = "add_checkout_page"
        => lastOp.raised = "" /\ "get_session_status" \in EventHandlers

\* the configuration fields of the ClassVars (the cached client is not one of them)
ConfigFields(c) ==
    <<c._secret_key, c._default_amount, c._default_currency, c._default_line_items,
      c._return_url>>

\* C19: no step of an event handler or of an HTTP endpoint changes the secret key, the
\* default amount, the default currency, the default line items or the return URL.
C19_RequestsKeepConfig ==
    [][ConfigFields(cls') = ConfigFields(cls)]_vars

\* handlers and endpoints have run in a configured app: the client has been built, a
\* checkout session is stored, and an endpoint has answered
C19_Witness ==
    /\ cls._stripe_client \in Keys
    /\ ConfigFields(cls) = <<"sk_test_123", 1099, "usd", <<Item>>, <<"/done">>>>
    /\ self.payment_status = "open"
    /\ lastOp.op = "pi_api"
    /\ lastOp.response.status_code = 200

\* the secret keys the backend holds: the configured key, the environment variable
\* and the key inside the client
HeldKeys == {cls._secret_key, environ, cls._stripe_client} \ {None, ""}

\* the ClassVars of the run in which another key k was configured in place of the
\* configured one
Rekey(c, k) ==
    IF c._secret_key = None THEN c
    ELSE [c EXCEPT !._secret_key = k,
                   !._stripe_client = IF @ = None THEN None ELSE k]

\* what the frontend and the HTTP client are given: the state vars, and the body of the
\* last endpoint response
IsResponse == lastOp.op \in {"pi_api", "cs_api", "ss_api"}

\* C20: no secret key the backend holds is the value of client_secret, payment_status
\* or error_message, or of a field of an endpoint's response body; and the run with
\* another key configured goes the same way: from the same state with the key
\* replaced, every handler and every endpoint takes the same path, sends the provider
\* the same parameters and returns the same response, so that with the same provider
\* answers the session states and the responses stay the same.
C20_SecretKeyStaysServerSide ==
    /\ self.client_secret \notin HeldKeys
    /\ self.payment_status \notin HeldKeys
    /\ self.error_message \notin HeldKeys
    /\ IsResponse => \A f \in DOMAIN lastOp.response.body :
                         lastOp.response.body[f] \notin HeldKeys
    /\ \A k \in NewKeys :
          LET c2 == Rekey(cls, k)
              Same(r2, r) == r2.task = r.task /\ r2.cls = Rekey(r.cls, k)
              SameResponse(r2, r) == Same(r2, r) /\ r2.response = r.response
          IN  /\ \A a \in AmountArgs, c \in CurrencyArgs :
                    Same(create_payment_intent(c2, environ, a, c),
                         create_payment_intent(cls, environ, a, c))
              /\ \A li \in LineItemArgs, u \in ReturnUrlArgs :
                    Same(create_checkout_session(c2, environ, li, u),
                         create_checkout_session(cls, environ, li, u))
              /\ SameResponse(_create_payment_intent_endpoint(c2, environ),
                              _create_payment_intent_endpoint(cls, environ))
              /\ \A o \in Origins :
                    SameResponse(_create_checkout_session_endpoint(c2, environ, o),
                                 _create_checkout_session_endpoint(cls, environ, o))
              /\ \A id \in SessionIds :
                    SameResponse(_get_session_status_endpoint(c2, environ, id),
                                 _get_session_status_endpoint(cls, environ, id))

\* with a key configured and the client built from it, a provider failure is in the
\* session state and an endpoint has answered 400
C20_Witness ==
    /\ cls._secret_key \in Keys
    /\ cls._stripe_client = cls._secret_key
    /\ self.error_message \in ProviderErrors
    /\ self.client_secret \in Secrets
    /\ lastOp.op = "cs_api"
    /\ lastOp.response.status_code = 400

\* the page helpers of pages.py
PageHelpers == {"add_checkout_page", "add_express_checkout_page"}

\* the route and the return_route passed to the page helper that ran last
RouteArgs ==
    IF lastOp.op = "add_checkout_page"
    THEN <<lastOp.args[3], lastOp.args[4]>>
    ELSE <<lastOp.args[4], lastOp.args[5]>>

\* C21: a page helper called with a route or a return_route that does not start with
\* "/" raises AssertionError before any side effect: the app's API routes and pages
\* and the ClassVars of StripeState are what they were before the call.
C21_BadRouteRejectedFirst ==
    (/\ lastOp.op \in PageHelpers
     /\ ~StartsWithSlash(RouteArgs[1]) \/ ~StartsWithSlash(RouteArgs[2]))
        => /\ lastOp.raised \in {ErrRoute, ErrReturnRoute}
           /\ ~StartsWithSlash(RouteArgs[1]) => lastOp.raised = ErrRoute
           /\ app = lastOp.app
           /\ cls = lastOp.from

\* add_checkout_page(app, secret_key="sk_test_123", line_items=[Item],
\* route="bad-route") was rejected on an app with a backend: nothing is registered,
\* no page exists and StripeState is unconfigured
C21_Witness ==
    /\ lastOp.op = "add_checkout_page"
    /\ lastOp.args[1] \in Keys
    /\ lastOp.args[2] = Some(<<Item>>)
    /\ lastOp.args[3] = <<"bad-route">>
    /\ lastOp.raised = ErrRoute
    /\ app = NewApp(TRUE)
    /\ cls = ClassVars

\* how many times the path is in the app's route table
Registered(a, path) == Cardinality({i \in DOMAIN a.routes : a.routes[i] = path})

\* C25 (as claimed): whatever setup calls were made, each of the three API paths is in
\* the route table at most once, and exactly once after a call that registers; on an
\* app without a backend register_stripe_api raises RuntimeError, the page helpers do
\* not, and nothing is registered.
C25_RoutesRegisteredOnce ==
    /\ \A i \in DOMAIN ApiPaths : Registered(app, ApiPaths[i]) <= 1
    /\ (/\ app.api
        /\ lastOp.op \in PageHelpers \cup {"register_stripe_api"}
        /\ lastOp.raised \notin {ErrRoute, ErrReturnRoute})
            => \A i \in DOMAIN ApiPaths : Registered(app, ApiPaths[i]) = 1
    /\ ~app.api
        => /\ app.routes = <<>>
           /\ lastOp.op = "register_stripe_api" => lastOp.raised = ErrNoBackend
           /\ lastOp.op \in PageHelpers => lastOp.raised # ErrNoBackend

\* C22 (as claimed): the endpoints validate as the handlers do: create-payment-intent
\* with a configured default amount <= 0 never has a provider call in flight and
\* answers with an error and no provider call made; create-checkout-session with no
\* configured line items likewise.
C22_EndpointsValidate ==
    /\ \A t \in Tasks :
        /\ task[t].kind = "pi_api" => cls._default_amount > 0 /\ task[t].params.amount > 0
        /\ task[t].kind = "cs_api" => cls._default_line_items # <<>>
    /\ (lastOp.op = "pi_api" /\ cls._default_amount <= 0)
        => lastOp.calls = 0 /\ lastOp.response.status_code >= 400
    /\ (lastOp.op = "cs_api" /\ cls._default_line_items = <<>>)
        => lastOp.calls = 0 /\ lastOp.response.status_code >= 400

\* a secret key is at hand: configured, in the environment, or in a cached client
KeyAvailable == cls._stripe_client # None \/ Truthy(cls._secret_key) \/ environ # ""

C23_NoRetry ==
    /\ \A t \in Tasks :
        /\ task[t].calls <= 1
        /\ task[t].pc = "except"
            => /\ ~ENABLED (\E e \in ProviderErrors : ProviderRaises(t, e))
               /\ ~ENABLED (\E s \in Secrets, st \in PIStatuses \cup CSStatuses :
                                ProviderReturns(t, s, st))
               /\ ENABLED (CreatePaymentIntentReturn(t) \/ CreateCheckoutSessionReturn(t))
        /\ task[t].pc = "idle"
            => /\ ENABLED CreatePaymentIntent(t, Some(1099), None)
               /\ ENABLED CreateCheckoutSession(t, Some(<<Item>>), <<>>)
               /\ ENABLED CreatePaymentIntentEndpoint(t)
    /\ IsResponse => lastOp.calls <= 1
    /\ (/\ lastOp.op \in {"create_payment_intent", "create_checkout_session"}
        /\ self.payment_status # "failed")
            => self.error_message = ""

\* after a provider failure was written to the session, a new create_payment_intent
\* was accepted and its one provider call is in flight
C23_Witness ==
    /\ lastOp.op \in {"create_payment_intent", "create_checkout_session"}
    /\ self.payment_status = "failed"
    /\ self.error_message \in ProviderErrors
    /\ \E t \in Tasks : task[t].kind = "pi" /\ task[t].pc = "await" /\ task[t].calls = 1

\* C28: client_secret changes only when a create returns after the provider answered
\* (to the provider's secret) and on reset_payment (to ""): the callbacks, a create
\* rejected by validation and a create whose provider call failed leave it as it was.
C28_ClientSecretFrame ==
    /\ [](lastOp.op = "reset_payment" => self.client_secret = "")
    /\ [][/\ \A t \in Tasks :
                (task[t].pc = "ok" /\ task'[t].pc = "idle")
                    => self'.client_secret = task[t].secret
          /\ self'.client_secret # self.client_secret
                => \/ lastOp'.op = "reset_payment"
                   \/ \E t \in Tasks : task[t].pc = "ok" /\ task'[t].pc = "idle"
          /\ lastOp'.op \in {"handle_payment_success", "handle_payment_error"}
                => self'.client_secret = self.client_secret
          /\ \A t \in Tasks :
                (task[t].pc \in {"invalid", "except"} /\ task'[t].pc = "idle")
                    => self'.client_secret = self.client_secret]_vars

\* handle_payment_success ran on a session that failed after a secret was stored: the
\* secret is still there
C28_Witness ==
    /\ lastOp.op = "handle_payment_success"
    /\ lastOp.from = "failed"
    /\ self.client_secret = "cs_2"

\* C24: however the request handlers (event handlers and endpoints) interleave, the
\* provider client is built at most once per secret-key configuration: a cached
\* client is never replaced, and every handler that goes on to its provider call
\* holds the cached client, which is the one built when the cache was empty.
C24_OneClient ==
    [][/\ cls._stripe_client # None => cls'._stripe_client = cls._stripe_client
       /\ \A t \in Racers :
            (task[t].pc = "idle" /\ task'[t].calls = 1)
                => cls'._stripe_client = IF cls._stripe_client # None
                                         THEN cls._stripe_client
                                         ELSE Or(cls._secret_key, environ)]_vars

\* two handlers have their provider calls in flight with the one client built from
\* the environment's key, which has been rotated since
C24_Witness ==
    /\ \A t \in Racers : task[t].calls = 1
    /\ task[1].kind = "pi" /\ task[2].kind = "pi_api"
    /\ cls._secret_key = None
    /\ cls._stripe_client = "sk_env"
    /\ environ = "sk_env_2"

\* what the `async with self` block of racer t writes, as the source assigns it: after
\* the provider answered, the secret, the status and "" together; otherwise the
\* message and "failed" together, the client secret staying
WholeWrite(t) ==
    IF task[t].pc = "ok"
    THEN [client_secret |-> task[t].secret,
          payment_status |-> IF task[t].kind = "cs" THEN Or(task[t].status, "open")
                             ELSE task[t].status,
          error_message |-> ""]
    ELSE [client_secret |-> self.client_secret,
          payment_status |-> "failed",
          error_message |-> CASE task[t].pc = "except" -> task[t].err
                              [] task[t].kind = "pi" -> ErrAmount
                              [] OTHER -> ErrLineItems]

Callbacks == {"handle_payment_success", "handle_payment_error"}

\* C26: the writes of the background creates are atomic per session. However the
\* creates in flight and the callbacks interleave, every step that changes the session
\* state is one whole write: a create's success write (its own provider response's
\* secret and status, error message "") or failure write (message and "failed"), or a
\* callback or reset; so no state pairs one response's secret with the status of
\* another create's half-applied write.
C26_AtomicWrites ==
    [][/\ \A t \in Racers :
            (task[t].pc # "idle" /\ task'[t].pc = "idle") => self' = WholeWrite(t)
       /\ self' # self
            => \/ lastOp'.op \in Callbacks \cup {"reset_payment"}
               \/ \E t \in Racers :
                    task[t].pc # "idle" /\ task'[t].pc = "idle" /\ self' = WholeWrite(t)]_vars

\* a checkout session's success write is in the state while another create holds a
\* different provider response it has yet to write
C26_Witness ==
    /\ lastOp.op = "create_checkout_session"
    /\ self = [client_secret |-> "cs_2", payment_status |-> "open", error_message |-> ""]
    /\ \E t \in Racers : task[t].kind = "pi" /\ task[t].pc = "ok" /\ task[t].secret = "cs_1"

\* C27 (as claimed): after reset_payment the session state is changed only by an
\* operation invoked after the reset (every create in flight was started before it),
\* so a create that completes after the reset does not write over it.
C27_ResetNotOverwritten ==
    [][(lastOp.op = "reset_payment" /\ self' # self) => lastOp'.op \in Callbacks]_vars

\* C27 (amended): after reset_payment the session holds client_secret "", status
\* "idle" and error message "" until the next write; that write is a callback's or the
\* completion of a create in flight, started before the reset and not cancelled by it,
\* which writes its result over the reset state.
C27_ResetHoldsUntilNextWrite ==
    /\ [](lastOp.op = "reset_payment" => self = StateVars)
    /\ [][(lastOp.op = "reset_payment" /\ self' # self)
            => \/ lastOp'.op \in Callbacks
               \/ \E t \in Racers :
                    /\ task[t].pc \in {"invalid", "ok", "except"}
                    /\ task'[t].pc = "idle"
                    /\ self' = WholeWrite(t)]_vars

\* reset_payment ran on a failed session while a create started before it holds the
\* provider's answer it is about to write
C27_Witness ==
    /\ lastOp.op = "reset_payment"
    /\ lastOp.from = "failed"
    /\ \E t \in Racers : task[t].pc = "ok" /\ task[t].secret \in Secrets

\* C30: with the provider answering and the session lock granted fairly, every create
\* in flight completes; it writes the session state at its completion and at no other
\* step: the provider's secret and status with an empty error message, or "failed"
\* with the error message.
C30_CreatesComplete ==
    /\ \A t \in Racers : (task[t].pc # "idle") ~> (task[t].pc = "idle")
    /\ [][\A t \in Racers :
            /\ (task[t].pc # "idle" /\ task'[t].pc # "idle" /\ task'[t] # task[t])
                => self' = self
            /\ (task[t].pc # "idle" /\ task'[t].pc = "idle")
                => /\ self' = WholeWrite(t)
                   /\ \/ self'.error_message = "" /\ self'.client_secret = task[t].secret
                      \/ self'.payment_status = "failed" /\ self'.error_message # ""]_vars

\* every create has completed, the last one with a provider failure written
C30_Witness ==
    /\ \A t \in Racers : task[t].pc = "idle"
    /\ lastOp.op = "create_payment_intent"
    /\ self.payment_status = "failed"
    /\ self.error_message \in ProviderErrors

====
